---------------------------- MODULE Spec2Model ----------------------------
(***************************************************************************)
(* Three FastAPI applications (sneakers, energy drinks, vapes), each a     *)
(* CRUD service over one SQLite table reached through a SQLAlchemy         *)
(* session: src/app.py, src/energy.py, src/vape.py.  The three files are   *)
(* the same program up to the name of the second text column and the extra *)
(* power_level column of vapes; the variable "resource" says which of the  *)
(* three applications a behaviour is a run of.                             *)
(*                                                                         *)
(* Representation.                                                         *)
(*   - A Python Optional / a nullable SQL column is a set with at most one *)
(*     element: None is {}, a value v is {v}.                              *)
(*   - A string is a tuple of one-character strings, so that LIKE, lower() *)
(*     and the BINARY collation are computed character by character.       *)
(*   - A row is a function from the column names of its table to values;   *)
(*     id is a plain integer (primary key, never NULL), every other column *)
(*     an optional value.  The Float columns of vapes hold the numbers     *)
(*     with zero fractional part.                                          *)
(***************************************************************************)
EXTENDS Integers, Sequences, FiniteSets, TLC

----------------------------------------------------------------------------
(* Bounds of the model *)

\* Largest primary key a behaviour assigns (create is disabled beyond it).
MaxId == 2
\* Requests that may be in flight at once in the concurrent specification.
MaxInFlight == 2
\* Largest skip and largest explicit limit a list request is given.
MaxSkip == 2
MaxLimit == 2

\* limit: int = 10
DefaultLimit == 10
\* skip: int = 0
DefaultSkip == 0

----------------------------------------------------------------------------
(* Optional values *)

None == {}
Some(v) == {v}
Val(o) == CHOOSE v \in o : TRUE

Max(S) == CHOOSE x \in S : \A y \in S : y <= x

----------------------------------------------------------------------------
(* Strings *)

Empty == << >>
Nike == <<"N", "i", "k", "e">>
Puma == <<"P", "u", "m", "a">>
Air == <<"A", "i", "r">>
Nixon == <<"N", "i", "x", "o", "n">>

\* The byte of a character (BINARY collation compares bytes).
Ord(c) ==
    CASE c = "%" -> 37  [] c = "A" -> 65  [] c = "C" -> 67  [] c = "D" -> 68
      [] c = "E" -> 69  [] c = "I" -> 73  [] c = "N" -> 78  [] c = "P" -> 80
      [] c = "S" -> 83  [] c = "_" -> 95  [] c = "a" -> 97  [] c = "c" -> 99
      [] c = "d" -> 100 [] c = "e" -> 101 [] c = "i" -> 105 [] c = "k" -> 107
      [] c = "m" -> 109 [] c = "n" -> 110 [] c = "o" -> 111 [] c = "p" -> 112
      [] c = "r" -> 114 [] c = "s" -> 115 [] c = "u" -> 117 [] c = "x" -> 120

\* c.lower() for one character: an upper-case letter becomes its lower-case one.
LowerChar(c) ==
    CASE c = "A" -> "a" [] c = "C" -> "c" [] c = "D" -> "d" [] c = "E" -> "e"
      [] c = "I" -> "i" [] c = "N" -> "n" [] c = "P" -> "p" [] c = "S" -> "s"
      [] OTHER -> c

\* str.lower()
Lower(s) == [i \in 1..Len(s) |-> LowerChar(s[i])]


----------------------------------------------------------------------------
(* The schema: class Sneaker / EnergyDrink / Vape *)

\* __tablename__ of the three mapped classes.
Resources == {"sneakers", "energy_drinks", "vapes"}

\* The second text column: model (Sneaker, Vape) or name (EnergyDrink).
NameCol(res) == IF res = "energy_drinks" THEN "name" ELSE "model"

\* The columns a create request supplies (SneakerCreate, EnergyDrinkCreate,
\* VapeCreate); SneakerUpdate, ... hold the same fields, each optional.
DataCols(res) ==
    {"brand", NameCol(res), "price"}
        \cup (IF res = "vapes" THEN {"power_level"} ELSE {})

\* The Column attributes of the mapped class.
Columns(res) == {"id"} \cup DataCols(res)

\* Attributes of the mapped class that are no Column.
ClassAttrs == {"__tablename__", "metadata"}

\* getattr(Sneaker, sort_by, None): "column" for a Column attribute, "object"
\* for another attribute of the class, "None" when there is no such attribute.
getattr(res, name) ==
    IF name \in Columns(res) THEN "column"
    ELSE IF name \in ClassAttrs THEN "object"
    ELSE "None"

\* The value of a row in a column, as a nullable value.
Cell(row, col) == IF col = "id" THEN Some(row[col]) ELSE row[col]

----------------------------------------------------------------------------
(* SneakerRepository: get_by_id, create, update, delete *)

\* An id taken from the number of rows in place of the rowid: after a delete
\* it can name a row that is still stored.
NextId_count(tbl) == Cardinality(tbl) + 1

\* The rowid SQLite gives the next INSERT into an INTEGER PRIMARY KEY table.
NextId(tbl) == IF tbl = {} THEN 1 ELSE Max({row.id : row \in tbl}) + 1

\* query(Sneaker).filter(Sneaker.id == sneaker_id).first()
get_by_id(tbl, id) ==
    LET hit == {row \in tbl : row.id = id}
    IN  IF hit = {} THEN None ELSE Some(CHOOSE row \in hit : TRUE)

\* create without its commit: the INSERT is rolled back when the session closes.
create_uncommitted(tbl, data) ==
    LET row == [c \in DOMAIN data \cup {"id"} |->
                    IF c = "id" THEN NextId(tbl) ELSE data[c]]
    IN  [table |-> tbl, row |-> Some(row)]

\* Sneaker(**sneaker_data.dict()); add; commit; refresh.
create(tbl, data) ==
    LET id == NextId(tbl)
        row == [c \in DOMAIN data \cup {"id"} |->
                    IF c = "id" THEN id ELSE data[c]]
        written == tbl \cup {row}
    IN  [table |-> written, row |-> get_by_id(written, id)]

\* setattrs with dict() in place of dict(exclude_unset=True): a field the
\* request leaves out is written as None.
setattrs_unset_as_none(o, data) ==
    [c \in DOMAIN o |->
        IF c \in DOMAIN data THEN data[c] ELSE IF c = "id" THEN o[c] ELSE None]

\* for key, value in sneaker_data.dict(exclude_unset=True).items():
\*     setattr(db_sneaker, key, value)
setattrs(o, data) ==
    [c \in DOMAIN o |-> IF c \in DOMAIN data THEN data[c] ELSE o[c]]

\* The second half of update: setattr on the loaded object o, commit (an
\* UPDATE of the attributes whose value changed, WHERE id = o.id), refresh (a
\* SELECT of the row).  ok is FALSE when the row is gone: the UPDATE matches no
\* row (StaleDataError) or the refresh finds none (InvalidRequestError).
update_commit(tbl, o, data) ==
    LET new == setattrs(o, data)
        changed == {c \in DOMAIN o : new[c] # o[c]}
        target == {row \in tbl : row.id = o.id}
        written == (tbl \ target) \cup
                     {[c \in DOMAIN row |->
                          IF c \in changed THEN new[c] ELSE row[c]] :
                      row \in target}
    IN  IF target = {}
        THEN [ok |-> FALSE, table |-> tbl, row |-> None]
        ELSE [ok |-> TRUE, table |-> written, row |-> get_by_id(written, o.id)]

\* delete without its commit: the DELETE is rolled back when the session closes.
delete_uncommitted(tbl, o) == tbl

\* The second half of delete: db.delete(o); commit (DELETE WHERE id = o.id; a
\* DELETE that matches no row is only warned about).
delete_commit(tbl, o) == tbl \ {row \in tbl : row.id = o.id}

----------------------------------------------------------------------------
(* SneakerRepository.get_all: the query builder *)

\* Python's truth value of an Optional[str] / Optional[int] argument.
truthy_str(o) == o # None /\ Val(o) # Empty
\* "is not None" in place of the truth value: a bound of 0 is a bound.
truthy_num_not_none(o) == o # None
truthy_num(o) == o # None /\ Val(o) # 0

\* SQLite's LIKE: % matches any run of characters, _ any one character, and
\* letters match whatever their ASCII case; there is no escape character.
RECURSIVE like(_, _)
like(pattern, s) ==
    IF pattern = Empty THEN s = Empty
    ELSE IF Head(pattern) = "%"
         THEN like(Tail(pattern), s) \/ (s # Empty /\ like(pattern, Tail(s)))
         ELSE /\ s # Empty
              /\ Head(pattern) = "_" \/ LowerChar(Head(pattern)) = LowerChar(Head(s))
              /\ like(Tail(pattern), Tail(s))

\* Sneaker.brand.contains(search): brand LIKE '%' || search || '%'; a
\* comparison with NULL is not true.
contains(cell, search) ==
    cell # None /\ like(<<"%">> \o search \o <<"%">>, Val(cell))

\* Sneaker.brand == filter_brand (BINARY collation: exact match)
col_eq(cell, v) == cell # None /\ Val(cell) = v
\* Sneaker.price >= filter_price_min
col_ge(cell, v) == cell # None /\ Val(cell) >= v
\* Sneaker.price <= filter_price_max
col_le(cell, v) == cell # None /\ Val(cell) <= v

\* where with the two search terms joined by "and" in place of "|".
where_search_both(res, row, filter_brand, filter_price_min, filter_price_max, search) ==
    /\ truthy_str(filter_brand) => col_eq(row.brand, Val(filter_brand))
    /\ truthy_num(filter_price_min) => col_ge(row.price, Val(filter_price_min))
    /\ truthy_num(filter_price_max) => col_le(row.price, Val(filter_price_max))
    /\ truthy_str(search) =>
          contains(row.brand, Val(search)) /\ contains(row[NameCol(res)], Val(search))

\* The filters of get_all.
where(res, row, filter_brand, filter_price_min, filter_price_max, search) ==
    /\ truthy_str(filter_brand) => col_eq(row.brand, Val(filter_brand))
    /\ truthy_num(filter_price_min) => col_ge(row.price, Val(filter_price_min))
    /\ truthy_num(filter_price_max) => col_le(row.price, Val(filter_price_max))
    /\ truthy_str(search) =>
          contains(row.brand, Val(search)) \/ contains(row[NameCol(res)], Val(search))

\* The rows of a set in rowid order: the order a SELECT without ORDER BY
\* reads the table in.
RECURSIVE scan(_)
scan(rows) ==
    IF rows = {} THEN << >>
    ELSE LET first == CHOOSE row \in rows : \A other \in rows : row.id <= other.id
         IN  <<first>> \o scan(rows \ {first})

\* query = self.db.query(Sneaker) and the four query.filter(...)
apply_filters(res, tbl, filter_brand, filter_price_min, filter_price_max, search) ==
    scan({row \in tbl :
            where(res, row, filter_brand, filter_price_min, filter_price_max, search)})

\* Strings in BINARY collation: byte by byte, a prefix first.
RECURSIVE str_less(_, _)
str_less(s, t) ==
    IF t = Empty THEN FALSE
    ELSE IF s = Empty THEN TRUE
    ELSE IF Head(s) = Head(t) THEN str_less(Tail(s), Tail(t))
    ELSE Ord(Head(s)) < Ord(Head(t))

TextCols == {"brand", "model", "name"}

\* ORDER BY column ASC puts a before b: NULL sorts before every value.
cell_less(col, a, b) ==
    IF b = None THEN FALSE
    ELSE IF a = None THEN TRUE
    ELSE IF col \in TextCols THEN str_less(Val(a), Val(b))
    ELSE Val(a) < Val(b)

Shuffles(n) == {f \in [1..n -> 1..n] : \A i, j \in 1..n : f[i] = f[j] => i = j}

\* The orders ORDER BY may return the rows in: rows that compare equal come in
\* any order.
sorted(rows, col, desc) ==
    {p \in {[i \in 1..Len(rows) |-> rows[f[i]]] : f \in Shuffles(Len(rows))} :
        \A i, j \in 1..Len(rows) :
            i < j => ~ (IF desc THEN cell_less(col, Cell(p[i], col), Cell(p[j], col))
                                ELSE cell_less(col, Cell(p[j], col), Cell(p[i], col)))}

Desc == <<"d", "e", "s", "c">>
Asc == <<"a", "s", "c">>

\* order_by with sort_order == "desc" in place of sort_order.lower() == "desc".
order_by_as_written(res, rows, sort_by, sort_order) ==
    IF sort_by = None \/ sort_by = Some("")
    THEN [raised |-> FALSE, rows |-> {rows}]
    ELSE LET column == getattr(res, Val(sort_by))
         IN  IF column = "None" THEN [raised |-> FALSE, rows |-> {rows}]
             ELSE IF column = "object" THEN [raised |-> TRUE, rows |-> {}]
             ELSE [raised |-> FALSE,
                   rows |-> sorted(rows, Val(sort_by), sort_order = Desc)]

\* The sorting of get_all: raised is TRUE for the AttributeError of .asc() /
\* .desc() on an attribute that is no Column.
order_by(res, rows, sort_by, sort_order) ==
    IF sort_by = None \/ sort_by = Some("")
    THEN [raised |-> FALSE, rows |-> {rows}]
    ELSE LET column == getattr(res, Val(sort_by))
         IN  IF column = "None" THEN [raised |-> FALSE, rows |-> {rows}]
             ELSE IF column = "object" THEN [raised |-> TRUE, rows |-> {}]
             ELSE [raised |-> FALSE,
                   rows |-> sorted(rows, Val(sort_by), Lower(sort_order) = Desc)]

\* The slice rows[skip:limit] in place of offset(skip).limit(limit).
offset_limit_slice(rows, skip, limit) ==
    LET last == IF limit < Len(rows) THEN limit ELSE Len(rows)
    IN  IF skip >= last THEN << >> ELSE SubSeq(rows, skip + 1, last)

\* query.offset(skip).limit(limit).all()
offset_limit(rows, skip, limit) ==
    LET last == IF skip + limit < Len(rows) THEN skip + limit ELSE Len(rows)
    IN  IF skip >= last THEN << >> ELSE SubSeq(rows, skip + 1, last)

----------------------------------------------------------------------------
(* SneakerController: the responses *)

NoResp == [status |-> 0, body |-> << >>]
NotFound == [status |-> 404, body |-> << >>]
ServerError == [status |-> 500, body |-> << >>]
NoContent == [status |-> 204, body |-> << >>]

\* SneakerResponse.from_orm(sneaker): every field is required and typed, so a
\* NULL column fails validation.
from_orm_ok(row) == \A c \in DOMAIN row : Cell(row, c) # None

\* return SneakerResponse.from_orm(sneaker)
respond(row) ==
    IF from_orm_ok(row) THEN [status |-> 200, body |-> <<row>>]
    ELSE ServerError

\* SneakerController.get_sneaker, update_sneaker: 404 for None, else the record.
found_or_404(o) == IF o = None THEN NotFound ELSE respond(Val(o))

\* SneakerController.list_sneakers:
\* [SneakerResponse.from_orm(sneaker) for sneaker in sneakers]
list_sneakers(rows) ==
    IF \A i \in 1..Len(rows) : from_orm_ok(rows[i])
    THEN [status |-> 200, body |-> rows]
    ELSE ServerError

\* SneakerController.get_sneaker on a table.
get_sneaker(tbl, id) == found_or_404(get_by_id(tbl, id))

----------------------------------------------------------------------------
(* Request inputs *)

\* A create body: every data column given, none null.
CreateInputs(res, dom) ==
    {[c \in DataCols(res) |->
        CASE c = "brand" -> Some(b)
          [] c = "price" -> Some(p)
          [] c = "power_level" -> Some(w)
          [] OTHER -> Some(n)] :
     b \in dom.brand, n \in dom.name, p \in dom.price, w \in dom.power}

\* An update body: any subset of the data columns, each a value or null
\* (the columns dom.cols names may be present, those dom.nulls names null).
OptVals(vals, nullable) == {Some(v) : v \in vals} \cup (IF nullable THEN {None} ELSE {})

UpdateInputs(res, dom) ==
    {[c \in S |->
        CASE c = "brand" -> b
          [] c = "price" -> p
          [] c = "power_level" -> w
          [] OTHER -> n] :
     S \in SUBSET (DataCols(res) \cap dom.cols),
     b \in OptVals(dom.brand, "brand" \in dom.nulls),
     n \in OptVals(dom.name, "name" \in dom.nulls),
     p \in OptVals(dom.price, "price" \in dom.nulls),
     w \in OptVals(dom.power, "power_level" \in dom.nulls)}

\* The inputs of the sequential specification.
SeqCreate == [brand |-> {Nike, Puma}, name |-> {Air}, price |-> {1}, power |-> {5}]
SeqUpdate == [brand |-> {Puma}, name |-> {Nixon}, price |-> {2}, power |-> {6},
              cols |-> {"brand", "model", "name", "price", "power_level"},
              nulls |-> {"brand"}]
\* The inputs of the concurrent specification.
ConcCreate == [brand |-> {Nike}, name |-> {Air}, price |-> {1}, power |-> {5}]
ConcUpdate == [brand |-> {Puma}, name |-> {Air}, price |-> {1}, power |-> {5},
               cols |-> {"brand"}, nulls |-> {}]

Ids == 1..MaxId

----------------------------------------------------------------------------
(* State *)

VARIABLES
    resource,   \* which of the three applications runs
    table,      \* the rows of its table
    sessions,   \* each Session object: "free" (no such object), "open", "closed"
    db,         \* per request: the Session get_db yielded (0: none)
    pc,         \* per request: where it is
    req,        \* per request: the operation and its arguments
    obj,        \* per request: the object the repository loaded or returned
    resp,       \* per request: the response
    query       \* per request: the rows of the Query get_all builds, then returns

vars == <<resource, table, sessions, db, pc, req, obj, resp, query>>

Req == 1..MaxInFlight

NoReq == [op |-> "none", id |-> 0, data |-> << >>]
NoQuery == << >>

Init ==
    /\ resource \in Resources
    /\ table = {}
    /\ sessions = [s \in Req |-> "free"]
    /\ db = [r \in Req |-> 0]
    /\ pc = [r \in Req |-> "idle"]
    /\ req = [r \in Req |-> NoReq]
    /\ obj = [r \in Req |-> None]
    /\ resp = [r \in Req |-> NoResp]
    /\ query = [r \in Req |-> NoQuery]

----------------------------------------------------------------------------
(* get_db *)

\* db = SessionLocal(): a new Session object.
SessionLocal(ss) == CHOOSE s \in DOMAIN ss : ss[s] = "free" /\ \A t \in DOMAIN ss : ss[t] = "free" => s <= t

\* A request arrives; get_db runs to its yield.
get_db_open(r) ==
    /\ pc[r] = "idle"
    /\ LET s == SessionLocal(sessions)
       IN  /\ sessions' = [sessions EXCEPT ![s] = "open"]
           /\ db' = [db EXCEPT ![r] = s]
    /\ pc' = [pc EXCEPT ![r] = "open"]
    /\ UNCHANGED <<resource, table, req, obj, resp, query>>

\* get_db without try / finally: db.close() runs only when the handler returned.
get_db_close_no_finally(r) ==
    /\ pc[r] = "responded"
    /\ sessions' = [sessions EXCEPT ![db[r]] =
                        IF resp[r].status < 400 THEN "closed" ELSE @]
    /\ pc' = [pc EXCEPT ![r] = "closed"]
    /\ req' = [req EXCEPT ![r] = NoReq]
    /\ resp' = [resp EXCEPT ![r] = [status |-> resp[r].status, body |-> << >>]]
    /\ obj' = [obj EXCEPT ![r] = None]
    /\ query' = [query EXCEPT ![r] = NoQuery]
    /\ UNCHANGED <<resource, table, db>>

\* finally: db.close(), after the handler returned or raised.
get_db_close(r) ==
    /\ pc[r] = "responded"
    /\ sessions' = [sessions EXCEPT ![db[r]] = "closed"]
    /\ pc' = [pc EXCEPT ![r] = "closed"]
    /\ req' = [req EXCEPT ![r] = NoReq]
    /\ resp' = [resp EXCEPT ![r] = [status |-> resp[r].status, body |-> << >>]]
    /\ obj' = [obj EXCEPT ![r] = None]
    /\ query' = [query EXCEPT ![r] = NoQuery]
    /\ UNCHANGED <<resource, table, db>>

\* The request is over: its objects are dropped.
request_end(r) ==
    /\ pc[r] = "closed"
    /\ pc' = [pc EXCEPT ![r] = "idle"]
    /\ sessions' = [sessions EXCEPT ![db[r]] =
                        IF sessions[db[r]] = "closed" THEN "free" ELSE @]
    /\ db' = [db EXCEPT ![r] = 0]
    /\ resp' = [resp EXCEPT ![r] = NoResp]
    /\ UNCHANGED <<resource, table, req, obj, query>>

----------------------------------------------------------------------------
(* The handlers *)

\* The handler of request r is at `at`, and its repository's session is usable.
Running(r, at) == pc[r] = at /\ sessions[db[r]] = "open"

\* The handler returns or raises: `returned` is what the repository returned.
Respond(r, request, returned, response) ==
    /\ req' = [req EXCEPT ![r] = request]
    /\ resp' = [resp EXCEPT ![r] = response]
    /\ obj' = [obj EXCEPT ![r] = returned]
    /\ pc' = [pc EXCEPT ![r] = "responded"]

\* GET /sneakers/{sneaker_id}
read_sneaker(r, ids) ==
    /\ Running(r, "open")
    /\ \E id \in ids :
        Respond(r, [op |-> "get", id |-> id, data |-> << >>],
                get_by_id(table, id), get_sneaker(table, id))
    /\ UNCHANGED <<resource, table, sessions, db, query>>

\* POST /sneakers/
create_sneaker(r, inputs) ==
    /\ Running(r, "open")
    /\ NextId(table) <= MaxId
    /\ \E data \in inputs :
        LET c == create(table, data)
        IN  /\ table' = c.table
            /\ Respond(r, [op |-> "create", id |-> 0, data |-> data],
                       c.row, respond(Val(c.row)))
    /\ UNCHANGED <<resource, sessions, db, query>>

\* PUT /sneakers/{sneaker_id}: repository.update up to its get_by_id.
update_sneaker_lookup(r, ids) ==
    /\ Running(r, "open")
    /\ \E id \in ids :
        LET o == get_by_id(table, id)
        IN  IF o = None
            THEN Respond(r, [op |-> "update", id |-> id, data |-> << >>], None, NotFound)
            ELSE /\ req' = [req EXCEPT ![r] = [op |-> "update", id |-> id, data |-> << >>]]
                 /\ obj' = [obj EXCEPT ![r] = o]
                 /\ pc' = [pc EXCEPT ![r] = "looked"]
                 /\ UNCHANGED resp
    /\ UNCHANGED <<resource, table, sessions, db, query>>

\* PUT /sneakers/{sneaker_id}: setattr, commit, refresh, respond.  The body of
\* the request is first read here.
update_sneaker_commit(r, inputs) ==
    /\ Running(r, "looked")
    /\ req[r].op = "update"
    /\ \E data \in inputs :
        LET u == update_commit(table, Val(obj[r]), data)
        IN  /\ table' = u.table
            /\ Respond(r, [req[r] EXCEPT !.data = data], u.row,
                       IF u.ok THEN found_or_404(u.row) ELSE ServerError)
    /\ UNCHANGED <<resource, sessions, db, query>>

\* DELETE /sneakers/{sneaker_id}: repository.delete up to its get_by_id.
delete_sneaker_lookup(r, ids) ==
    /\ Running(r, "open")
    /\ \E id \in ids :
        LET o == get_by_id(table, id)
        IN  IF o = None
            THEN Respond(r, [op |-> "delete", id |-> id, data |-> << >>], None, NotFound)
            ELSE /\ req' = [req EXCEPT ![r] = [op |-> "delete", id |-> id, data |-> << >>]]
                 /\ obj' = [obj EXCEPT ![r] = o]
                 /\ pc' = [pc EXCEPT ![r] = "looked"]
                 /\ UNCHANGED resp
    /\ UNCHANGED <<resource, table, sessions, db, query>>

\* DELETE /sneakers/{sneaker_id}: db.delete, commit, respond 204.
delete_sneaker_commit(r) ==
    /\ Running(r, "looked")
    /\ req[r].op = "delete"
    /\ table' = delete_commit(table, Val(obj[r]))
    /\ Respond(r, req[r], None, NoContent)
    /\ UNCHANGED <<resource, sessions, db, query>>

\* The query parameters of GET /sneakers/.
Brands == {None, Some(Empty), Some(Nike)}
PriceBounds == {None, Some(0), Some(1)}
Searches ==
    {None, Some(Empty), Some(<<"N", "i">>), Some(<<"n", "i">>),
     Some(<<"i", "%", "n">>), Some(<<"_", "k">>)}
SortBys ==
    {None, Some(""), Some("id"), Some("brand"), Some("model"), Some("name"),
     Some("price"), Some("power_level"), Some("color"), Some("__tablename__")}
SortOrders == {Asc, Desc, <<"D", "E", "S", "C">>, <<"u", "p">>}
Skips == {None} \cup {Some(n) : n \in 0..MaxSkip}
Limits == {None} \cup {Some(n) : n \in 0..MaxLimit}

\* GET /sneakers/: get_all up to its filters.
read_sneakers_filter(r) ==
    /\ Running(r, "open")
    /\ \E filter_brand \in Brands, filter_price_min \in PriceBounds,
          filter_price_max \in PriceBounds, search \in Searches :
        /\ query' = [query EXCEPT ![r] =
                        apply_filters(resource, table, filter_brand,
                                      filter_price_min, filter_price_max, search)]
        /\ req' = [req EXCEPT ![r] =
                      [op |-> "list", id |-> 0,
                       data |-> [filter_brand |-> filter_brand,
                                 filter_price_min |-> filter_price_min,
                                 filter_price_max |-> filter_price_max,
                                 search |-> search]]]
    /\ pc' = [pc EXCEPT ![r] = "filtered"]
    /\ UNCHANGED <<resource, table, sessions, db, obj, resp>>

\* GET /sneakers/: the sorting of get_all.  sort_order defaults to "asc".
read_sneakers_order(r) ==
    /\ Running(r, "filtered")
    /\ \E sort_by \in SortBys, sort_order \in SortOrders :
        LET o == order_by(resource, query[r], sort_by, sort_order)
            request == [req[r] EXCEPT !.data = [sort_by |-> sort_by, sort_order |-> sort_order]]
        IN  IF o.raised
            THEN /\ Respond(r, request, None, ServerError)
                 /\ UNCHANGED query
            ELSE /\ \E rows \in o.rows : query' = [query EXCEPT ![r] = rows]
                 /\ req' = [req EXCEPT ![r] = request]
                 /\ pc' = [pc EXCEPT ![r] = "ordered"]
                 /\ UNCHANGED <<obj, resp>>
    /\ UNCHANGED <<resource, table, sessions, db>>

\* GET /sneakers/: offset, limit, all, and the response.  skip defaults to 0,
\* limit to 10.
read_sneakers_page(r) ==
    /\ Running(r, "ordered")
    /\ \E skip \in Skips, limit \in Limits :
        LET rows == offset_limit(query[r],
                                 IF skip = None THEN DefaultSkip ELSE Val(skip),
                                 IF limit = None THEN DefaultLimit ELSE Val(limit))
        IN  /\ query' = [query EXCEPT ![r] = rows]
            /\ Respond(r, [req[r] EXCEPT !.data = [skip |-> skip, limit |-> limit]],
                       None, list_sneakers(rows))
    /\ UNCHANGED <<resource, table, sessions, db>>

\* A statement fails in the storage layer (locked or unreadable database
\* file, ...): the exception propagates and the response is a server error.
storage_failure(r) ==
    /\ pc[r] \in {"open", "looked", "ordered"}
    /\ Respond(r, [req[r] EXCEPT !.op = "failed"], None, ServerError)
    /\ UNCHANGED <<resource, table, sessions, db, query>>

----------------------------------------------------------------------------
(* Specifications *)

SeqCreates == CreateInputs(resource, SeqCreate)
SeqUpdates == UpdateInputs(resource, SeqUpdate)
ConcCreates == CreateInputs(resource, ConcCreate)
ConcUpdates == UpdateInputs(resource, ConcUpdate)

\* One request at a time.
Next ==
    \/ get_db_open(1)
    \/ read_sneaker(1, Ids)
    \/ create_sneaker(1, SeqCreates)
    \/ update_sneaker_lookup(1, Ids)
    \/ update_sneaker_commit(1, SeqUpdates)
    \/ delete_sneaker_lookup(1, Ids)
    \/ delete_sneaker_commit(1)
    \/ storage_failure(1)
    \/ get_db_close(1)
    \/ request_end(1)

Spec == Init /\ [][Next]_vars

\* What the thread serving request r does next.
Progress(r) ==
    \/ read_sneaker(r, Ids)
    \/ create_sneaker(r, ConcCreates)
    \/ update_sneaker_lookup(r, Ids)
    \/ update_sneaker_commit(r, ConcUpdates)
    \/ delete_sneaker_lookup(r, Ids)
    \/ delete_sneaker_commit(r)
    \/ storage_failure(r)
    \/ get_db_close(r)
    \/ request_end(r)

\* The rows the list specification starts from: each can be created, and
\* its brand then set to null by an update.
Product(res, b, n, p, w) ==
    [c \in DataCols(res) |->
        CASE c = "brand" -> b
          [] c = "price" -> Some(p)
          [] c = "power_level" -> Some(w)
          [] OTHER -> Some(n)]

Catalogue(res) ==
    {Product(res, Some(Nike), Air, 1, 2),
     Product(res, Some(Puma), Nixon, -1, 1),
     Product(res, None, Air, 0, 1),
     Product(res, Some(<<"n", "i", "k", "e">>), Nixon, 0, 2),
     Product(res, Some(Puma), Air, 2, 1)}

\* The tables of 0..MaxId rows with ids 1..n.
ListTables(res) ==
    UNION {{{[c \in Columns(res) |-> IF c = "id" THEN i ELSE pick[i][c]] : i \in 1..n} :
              pick \in [1..n -> Catalogue(res)]} :
           n \in 0..MaxId}

ListInit ==
    /\ resource \in Resources
    /\ table \in ListTables(resource)
    /\ sessions = [s \in Req |-> "free"]
    /\ db = [r \in Req |-> 0]
    /\ pc = [r \in Req |-> "idle"]
    /\ req = [r \in Req |-> NoReq]
    /\ obj = [r \in Req |-> None]
    /\ resp = [r \in Req |-> NoResp]
    /\ query = [r \in Req |-> NoQuery]

\* List requests, one at a time, on a table that does not change.
ListNext ==
    \/ get_db_open(1)
    \/ read_sneakers_filter(1)
    \/ read_sneakers_order(1)
    \/ read_sneakers_page(1)
    \/ storage_failure(1)
    \/ get_db_close(1)
    \/ request_end(1)

ListSpec == ListInit /\ [][ListNext]_vars

\* Up to MaxInFlight requests at once, each served by its own thread.
ConcNext ==
    \E r \in Req :
        \/ get_db_open(r)
        \/ read_sneaker(r, Ids)
        \/ create_sneaker(r, ConcCreates)
        \/ update_sneaker_lookup(r, Ids)
        \/ update_sneaker_commit(r, ConcUpdates)
        \/ delete_sneaker_lookup(r, Ids)
        \/ delete_sneaker_commit(r)
        \/ storage_failure(r)
        \/ get_db_close(r)
        \/ request_end(r)

ConcSpec == Init /\ [][ConcNext]_vars

\* A thread that serves a request keeps running until the request is over.
FairSpec == ConcSpec /\ \A r \in Req : WF_vars(Progress(r))

----------------------------------------------------------------------------
(* Claims *)

IdsOf(tbl) == {row.id : row \in tbl}

\* Request r's handler returns (or raises) in this step, having run `op`.
Returns(r, op) ==
    /\ pc[r] \in {"open", "looked"}
    /\ pc'[r] = "responded"
    /\ req'[r].op = op

\* C1: every create that returns has stored exactly one new record, returns it
\* with an id no stored record had, and a get of that id, issued next by
\* another request, answers 200 with a record that has this id and the
\* fields of the create input.
C1_CreateThenGet ==
    [][\A r \in Req :
        Returns(r, "create") =>
            /\ resp'[r].status = 200
            /\ Len(resp'[r].body) = 1
            /\ LET rec == resp'[r].body[1]
                   got == get_sneaker(table', rec.id)
               IN  /\ rec.id \notin IdsOf(table)
                   /\ table \subseteq table'
                   /\ Cardinality(table') = Cardinality(table) + 1
                   /\ got.status = 200
                   /\ got.body = <<rec>>
                   /\ \A c \in DataCols(resource) : rec[c] = req'[r].data[c]
                   /\ DOMAIN rec = Columns(resource)]_vars

\* C1's case: a create answered 200 into a table that held a record already,
\* and a get of the new id finds the record.
C1_Witness ==
    \E r \in Req :
        /\ pc[r] = "responded"
        /\ req[r].op = "create"
        /\ resp[r].status = 200
        /\ Cardinality(table) = 2
        /\ get_sneaker(table, resp[r].body[1].id) = resp[r]

\* C2: an update of an existing id writes exactly the fields its body holds:
\* the record keeps its id and every field the body leaves out, every other
\* record stays as it was, the repository returns the stored record, and an
\* empty body changes nothing and returns the record as it was.
C2_UpdateFrame ==
    [][\A r \in Req :
        Returns(r, "update") /\ pc[r] = "looked" =>
            /\ get_by_id(table, req'[r].id) # None
            /\ obj'[r] # None
            /\ LET old == Val(get_by_id(table, req'[r].id))
                   data == req'[r].data
                   new == Val(obj'[r])
               IN  /\ new.id = old.id
                   /\ get_by_id(table', old.id) = Some(new)
                   /\ \A c \in DOMAIN data : new[c] = data[c]
                   /\ \A c \in DataCols(resource) \ DOMAIN data : new[c] = old[c]
                   /\ table' \ {new} = table \ {old}
                   /\ Cardinality(table') = Cardinality(table)
                   /\ (DOMAIN data = {} => new = old /\ table' = table)]_vars

\* C2's case: an update whose body holds some fields and leaves out others
\* returned, with another record in the table.
C2_Witness ==
    \E r \in Req :
        /\ pc[r] = "responded"
        /\ req[r].op = "update"
        /\ obj[r] # None
        /\ DOMAIN req[r].data # {}
        /\ DataCols(resource) \ DOMAIN req[r].data # {}
        /\ Cardinality(table) = 2

\* C3: a get, an update or a delete of an id the table does not hold answers
\* 404 and leaves the table as it was; a delete of an id the table holds
\* answers 204 and removes the record, so that a get, an update or a delete of
\* that id issued next answers 404.
C3_AbsentIs404 ==
    [][\A r \in Req :
        /\ (/\ pc[r] = "open"
            /\ pc'[r] # "open"
            /\ req'[r].op \in {"get", "update", "delete"}
            /\ req'[r].id \notin IdsOf(table))
           => /\ pc'[r] = "responded"
              /\ resp'[r] = NotFound
              /\ obj'[r] = None
              /\ table' = table
        /\ (Returns(r, "delete") /\ pc[r] = "looked")
           => /\ resp'[r] = NoContent
              /\ req'[r].id \in IdsOf(table)
              /\ req'[r].id \notin IdsOf(table')
              /\ get_sneaker(table', req'[r].id) = NotFound
              /\ table' \subseteq table
              /\ Cardinality(table') = Cardinality(table) - 1]_vars

\* C3's case: a request on an id that was deleted before it answered 404 while
\* the table holds another record.
C3_Witness ==
    \E r \in Req :
        /\ pc[r] = "responded"
        /\ req[r].op \in {"get", "update", "delete"}
        /\ req[r].id \notin IdsOf(table)
        /\ req[r].id < Max(IdsOf(table) \cup {0})
        /\ resp[r] = NotFound

\* No two requests hold the same session, and a request whose handler runs
\* holds an open one.
OwnSession ==
    \A r \in Req :
        /\ pc[r] # "idle" => db[r] # 0
        /\ pc[r] \in {"open", "looked", "responded"} => sessions[db[r]] = "open"
        /\ \A q \in Req : q # r /\ db[q] # 0 => db[q] # db[r]

\* C10: every request holds a session of its own while it runs; the session
\* is closed when the request ends, whatever the response (200, 204, 404 or
\* 500), and every open session is eventually closed.
C10_SessionPerRequest ==
    /\ []OwnSession
    /\ [][\A r \in Req :
            pc[r] # "idle" /\ pc'[r] = "idle" => sessions[db[r]] = "closed"]_vars
    /\ \A s \in Req : (sessions[s] = "open") ~> (sessions[s] = "closed")

\* C10's case: a request that failed in storage has closed its session while
\* a second request runs on an open session of its own and a 404 awaits its
\* close.
C10_Witness ==
    \E r, q \in Req :
        /\ pc[r] = "closed"
        /\ resp[r].status = 500
        /\ sessions[db[r]] = "closed"
        /\ pc[q] = "responded"
        /\ resp[q].status = 404
        /\ sessions[db[q]] = "open"
        /\ db[q] # db[r]

----------------------------------------------------------------------------
(* Claims about GET /sneakers/ *)

InSeq(x, seq) == \E i \in 1..Len(seq) : seq[i] = x

\* Request r has run the filters of get_all.
Filtered(r) == pc[r] = "filtered" /\ req[r].op = "list"

\* s occurs in t, character for character.
IsSubstring(s, t) ==
    \E i \in 0..(Len(t) - Len(s)) : \A k \in 1..Len(s) : t[i + k] = s[k]

\* C4: the rows list keeps are exactly the rows of the table that satisfy
\* every constraint the request supplies: brand equal to filter_brand, price
\* within the inclusive bounds (a bound of 0 is no bound), and the search.
C4_ExactlyTheMatching ==
    \A r \in Req :
        Filtered(r) =>
            LET d == req[r].data
                supplied(b) == b # None /\ b # Some(0)
                satisfies(row) ==
                    /\ d.filter_brand # None => row.brand = d.filter_brand
                    /\ supplied(d.filter_price_min) =>
                          row.price # None /\ Val(row.price) >= Val(d.filter_price_min)
                    /\ supplied(d.filter_price_max) =>
                          row.price # None /\ Val(row.price) <= Val(d.filter_price_max)
                    /\ d.search # None =>
                          \/ contains(row.brand, Val(d.search))
                          \/ contains(row[NameCol(resource)], Val(d.search))
            IN  /\ \A row \in table : InSeq(row, query[r]) <=> satisfies(row)
                /\ \A i \in 1..Len(query[r]) : query[r][i] \in table

\* The rows that pass every filter of the request but its search.
PassOthers(r) ==
    LET d == req[r].data
    IN  {row \in table :
            where(resource, row, d.filter_brand, d.filter_price_min,
                  d.filter_price_max, None)}

\* C5 as stated: the search keeps a row exactly when the search string
\* occurs, character for character, in its brand or in its model / name.
C5_CaseSensitiveSubstring ==
    \A r \in Req :
        Filtered(r) /\ req[r].data.search # None =>
            LET search == Val(req[r].data.search)
                occurs(cell) == cell # None /\ IsSubstring(search, Val(cell))
            IN  \A row \in PassOthers(r) :
                    InSeq(row, query[r])
                        <=> occurs(row.brand) \/ occurs(row[NameCol(resource)])

Letters == (65..90) \cup (97..122)

\* Two characters that LIKE takes for the same: equal, or one letter in its
\* two ASCII cases.
SameLetter(a, b) ==
    \/ a = b
    \/ /\ Ord(a) \in Letters
       /\ Ord(b) \in Letters
       /\ Ord(a) - Ord(b) \in {32, -32}

\* t matches the pattern %search%: the characters of search other than % are
\* found in t in their order, next to each other where they are next to each
\* other in search, _ standing for any character.
Matches(search, t) ==
    LET idx == {k \in 1..Len(search) : search[k] # "%"}
    IN  \E pos \in [idx -> 1..Len(t)] :
            /\ \A k \in idx : search[k] = "_" \/ SameLetter(search[k], t[pos[k]])
            /\ \A k \in idx : k + 1 \in idx => pos[k + 1] = pos[k] + 1
            /\ \A k, m \in idx : k < m => pos[k] < pos[m]

\* C5 amended: an absent or empty search keeps every row; any other search
\* keeps a row exactly when its brand or its model / name is not null and
\* matches the LIKE pattern %search%, letters compared whatever their ASCII
\* case and % and _ of the search string taken as wildcards.
C5_LikeMatch ==
    \A r \in Req :
        Filtered(r) =>
            LET d == req[r].data
                hit(cell) == cell # None /\ Matches(Val(d.search), Val(cell))
            IN  \A row \in PassOthers(r) :
                    InSeq(row, query[r])
                        <=> \/ d.search = None
                            \/ d.search = Some(Empty)
                            \/ hit(row.brand)
                            \/ hit(row[NameCol(resource)])

\* C5's case: the search "ni" kept a row whose brand is "Nike" and dropped
\* another row.
C5_Witness ==
    \E r \in Req :
        /\ Filtered(r)
        /\ req[r].data.search = Some(<<"n", "i">>)
        /\ \E i \in 1..Len(query[r]) : query[r][i].brand = Some(Nike)
        /\ \E row \in PassOthers(r) : ~ InSeq(row, query[r])

\* C6: list returns the rows of the filtered and sorted sequence from offset
\* skip on, limit of them at most (skip 0 and limit 10 when absent): none
\* when limit is 0 or skip is not below the number of rows.
C6_Window ==
    [][\A r \in Req :
        pc[r] = "ordered" /\ pc'[r] = "responded" /\ req'[r].op = "list" =>
            LET d == req'[r].data
                skip == IF d.skip = None THEN 0 ELSE Val(d.skip)
                limit == IF d.limit = None THEN 10 ELSE Val(d.limit)
                rest == IF Len(query[r]) > skip THEN Len(query[r]) - skip ELSE 0
                out == query'[r]
            IN  /\ Len(out) = IF limit < rest THEN limit ELSE rest
                /\ \A i \in 1..Len(out) : out[i] = query[r][skip + i]
                /\ limit = 0 => out = << >>
                /\ skip >= Len(query[r]) => out = << >>
                /\ resp'[r].status = 200 => resp'[r].body = out]_vars

\* C6's case: the second of two rows was returned for skip 1 and limit 1.
C6_Witness ==
    \E r \in Req :
        /\ pc[r] = "responded"
        /\ req[r].op = "list"
        /\ req[r].data = [skip |-> Some(1), limit |-> Some(1)]
        /\ Cardinality(table) = 2
        /\ Len(query[r]) = 1
        /\ query[r][1].id = 2
        /\ resp[r].body = query[r]

\* The fields the resource declares.
DeclaredFields(res) ==
    CASE res = "sneakers" -> {"id", "brand", "model", "price"}
      [] res = "energy_drinks" -> {"id", "brand", "name", "price"}
      [] res = "vapes" -> {"id", "brand", "model", "price", "power_level"}

\* C7: with a sort_by that names no declared field the sorting raises nothing
\* and leaves the rows as they were.
C7_UnknownSortIgnored ==
    [][\A r \in Req :
        (/\ pc[r] = "filtered"
         /\ pc'[r] # "filtered"
         /\ \/ req'[r].data.sort_by = None
            \/ Val(req'[r].data.sort_by) \notin DeclaredFields(resource))
        => /\ pc'[r] = "ordered"
           /\ query'[r] = query[r]]_vars

\* sort_order is "desc" in some mix of upper and lower case.
IsDesc(s) ==
    /\ Len(s) = 4
    /\ s[1] \in {"d", "D"}
    /\ s[2] \in {"e", "E"}
    /\ s[3] \in {"s", "S"}
    /\ s[4] \in {"c", "C"}

\* C8: with a sort_by that names a declared field the rows come out the same
\* rows, in descending order of the field when sort_order is "desc" whatever
\* its case and in ascending order for any other sort_order; the window is
\* then cut from the rows in that order.
C8_SortDirection ==
    [][\A r \in Req :
        /\ (/\ pc[r] = "filtered"
            /\ pc'[r] # "filtered"
            /\ req'[r].data.sort_by # None
            /\ Val(req'[r].data.sort_by) \in DeclaredFields(resource))
           => LET col == Val(req'[r].data.sort_by)
                  out == query'[r]
                  key(i) == Cell(out[i], col)
              IN  /\ pc'[r] = "ordered"
                  /\ Len(out) = Len(query[r])
                  /\ \A i \in 1..Len(out) : InSeq(query[r][i], out)
                  /\ \A i, j \in 1..Len(out) :
                        i < j =>
                            IF IsDesc(req'[r].data.sort_order)
                            THEN ~ cell_less(col, key(i), key(j))
                            ELSE ~ cell_less(col, key(j), key(i))
        /\ (pc[r] = "ordered" /\ pc'[r] = "responded" /\ req'[r].op = "list")
           => \E first \in 0..Len(query[r]) :
                 \A i \in 1..Len(query'[r]) : query'[r][i] = query[r][first + i]]_vars

\* C8's case: sort_by price with sort_order "DESC" put the dearer of two rows
\* first, against their order in the table.
C8_Witness ==
    \E r \in Req :
        /\ pc[r] = "ordered"
        /\ req[r].data = [sort_by |-> Some("price"), sort_order |-> <<"D", "E", "S", "C">>]
        /\ Len(query[r]) = 2
        /\ query[r][1].id = 2
        /\ Val(query[r][1].price) > Val(query[r][2].price)

\* A bound of 0 read as no bound.
Unzero(bound) == IF bound = Some(0) THEN None ELSE bound

\* C9: the rows list keeps with a price bound of 0 are those it keeps with
\* the bound absent, and a bound other than 0 keeps exactly the rows, among
\* those the other filters keep, whose price is on its side of the bound or
\* equal to it.
C9_ZeroIsNoBound ==
    \A r \in Req :
        Filtered(r) =>
            LET d == req[r].data
                lo == d.filter_price_min
                hi == d.filter_price_max
                kept(min, max) ==
                    apply_filters(resource, table, d.filter_brand, min, max, d.search)
            IN  /\ query[r] = kept(Unzero(lo), Unzero(hi))
                /\ Unzero(lo) # None =>
                      \A row \in table :
                          InSeq(row, query[r])
                              <=> /\ InSeq(row, kept(None, hi))
                                  /\ row.price # None
                                  /\ Val(row.price) >= Val(lo)
                /\ Unzero(hi) # None =>
                      \A row \in table :
                          InSeq(row, query[r])
                              <=> /\ InSeq(row, kept(lo, None))
                                  /\ row.price # None
                                  /\ Val(row.price) <= Val(hi)

\* C9's case: with filter_price_min 0 a row of negative price was kept, and
\* with filter_price_max 0 a row of positive price.
C9_Witness ==
    \E r \in Req :
        /\ Filtered(r)
        /\ req[r].data.filter_price_min = Some(0)
        /\ req[r].data.filter_price_max = Some(0)
        /\ \E i, j \in 1..Len(query[r]) :
              Val(query[r][i].price) < 0 /\ Val(query[r][j].price) > 0

----------------------------------------------------------------------------
(* Claims about ids *)

\* The fields of a row other than its id.
Fields(row) == [c \in DOMAIN row \ {"id"} |-> row[c]]

\* C11: the ids of the stored records are pairwise distinct at all times; a
\* create stores one more record under an id no stored record had, whether or
\* not a record with the same fields is stored already; an update leaves the
\* set of ids and every other record as they were and returns a record with
\* the id it looked up; a delete only removes; and no other step changes the
\* ids in the table.
C11_UniqueImmutableIds ==
    /\ [](\A a, b \in table : a.id = b.id => a = b)
    /\ [][/\ \A r \in Req :
              /\ Returns(r, "create") =>
                    /\ obj'[r] # None
                    /\ Val(obj'[r]).id \notin IdsOf(table)
                    /\ Fields(Val(obj'[r])) = req'[r].data
                    /\ table' = table \cup {Val(obj'[r])}
                    /\ Cardinality(table') = Cardinality(table) + 1
              /\ Returns(r, "update") =>
                    /\ IdsOf(table') = IdsOf(table)
                    /\ \A row \in table : row.id # req'[r].id => row \in table'
                    /\ obj'[r] # None => Val(obj'[r]).id = req'[r].id
              /\ Returns(r, "delete") => table' \subseteq table
          /\ (\A r \in Req : ~Returns(r, "create")) =>
                IdsOf(table') \subseteq IdsOf(table)]_vars

\* C11's case: the same fields were created twice and are stored as two
\* records with different ids, the second create having just answered.
C11_Witness ==
    \E r \in Req :
        /\ pc[r] = "responded"
        /\ req[r].op = "create"
        /\ resp[r].status = 200
        /\ \E a, b \in table :
            /\ a.id # b.id
            /\ Fields(a) = Fields(b)
            /\ Fields(b) = req[r].data
            /\ resp[r].body = <<b>>

----------------------------------------------------------------------------
(* Claims about requests that race on one id *)

\* A delete reports true only when its commit removes the record.
DeleteOnce ==
    \A r \in Req :
        (Returns(r, "delete") /\ pc[r] = "looked" /\ resp'[r] = NoContent) =>
            /\ req'[r].id \in IdsOf(table)
            /\ req'[r].id \notin IdsOf(table')

\* An update that commits answers as an update run at that moment on the
\* stored table would: NotFound and no change when the id is not stored, the
\* stored record with the fields of the body written otherwise.
UpdateOrNotFound ==
    \A r \in Req :
        (Returns(r, "update") /\ pc[r] = "looked") =>
            LET stored == get_by_id(table, req'[r].id)
            IN  IF stored = None
                THEN resp'[r] = NotFound /\ table' = table
                ELSE /\ resp'[r] = respond(setattrs(Val(stored), req'[r].data))
                     /\ get_sneaker(table', req'[r].id) = resp'[r]

\* C12: with requests racing on one id, each update and delete being a lookup
\* step and a later commit step, every delete that reports true has removed
\* the record (two deletes of one record never both report true), and every
\* update answers with the updated record or NotFound, as in a sequential
\* order of the requests.
C12_SequentialOrder == [][DeleteOnce]_vars /\ [][UpdateOrNotFound]_vars

============================================================================
